---------------------------- MODULE Spec2Model ----------------------------
(***************************************************************************)
(* A model of benchmark.py: the MOT16 dataset loader.                      *)
(*                                                                         *)
(*   fix_gt                    the ground-truth normalizer                 *)
(*   SequenceLoader.load_gt    the generator that groups rows per frame    *)
(*   SequenceLoader.__iter__   the generator that pairs images and groups  *)
(*   SequenceLoader.update_metrics                                         *)
(*   DataLoader.__iter__ / load_sequence                                   *)
(*                                                                         *)
(* A generator runs without interruption from one resumption to its next   *)
(* yield, so one pull (next(...)) is one action.  Python lists are         *)
(* objects: the lists `boxes` and `midpoints` of load_gt are state, and    *)
(* what the consumer was handed is a reference to one of them.             *)
(***************************************************************************)
EXTENDS Integers, Sequences, FiniteSets, TLC

VARIABLES
    fs,                 \* the files of one sequence directory: name -> content
    fix_status,         \* outcome of the last fix_gt call made on its own
    fix_calls,          \* number of fix_gt calls made on their own
    fix_prev,           \* the files as they were before the last such call
    fix_arg,            \* the file name the last such call was given
    \* ---- one SequenceLoader and one iteration over it
    filepath,           \* self.filepath: root directory, split, sequence
    choose_midpoints,   \* self.choose_midpoints
    seqLength,          \* self.seqLength, the manifest's field (a string)
    images,             \* the frames whose image file cv2.imread can read
    self_frame,         \* self.frame (0: the attribute is not set yet)
    self_midpoints,     \* self.midpoints: the list object it refers to
    lists,              \* the list objects: their current contents
    gt_pc,              \* load_gt's generator: where it is suspended
    gt_pos,             \* load_gt: the row it was suspended on
    fid,                \* load_gt: the open annotation file (its rows)
    iter_pc,            \* __iter__'s generator: where it is suspended
    frame,              \* __iter__: its loop variable
    err,                \* the exception the last pull raised, or "none"
    pairs,              \* what the consumer was handed, in order
    accumulator,        \* self.accumulator: the updates it received
    \* ---- one DataLoader and one iteration over it
    root,               \* the directories under self.filepath, per sequence name
    dl_midpoints,       \* the DataLoader's self.choose_midpoints
    self_sequence,      \* the DataLoader's self.sequence (0: not set yet)
    data_pc,            \* the generator of DataLoader.__iter__
    data_err,           \* the exception its last pull raised, or "none"
    caught,             \* where the IOError it caught was raised, or "none"
    sequences,          \* the SequenceLoaders the consumer was handed
    \* ---- files at the operating system
    handles,            \* the files that are open, and which function opened them
    io_log,             \* load_gt: its fix_gt call and its open, in order
    \* ---- a second iteration, interleaved with the first
    second              \* its state; on the same or on another SequenceLoader

fixvars == <<fs, fix_status, fix_calls, fix_prev, fix_arg>>

seqvars ==
    <<filepath, choose_midpoints, seqLength, images, self_frame,
      self_midpoints, lists, gt_pc, gt_pos, fid, iter_pc, frame, err, pairs,
      accumulator>>

datavars ==
    <<root, dl_midpoints, self_sequence, data_pc, data_err, caught, sequences>>

iovars == <<handles, io_log>>

vars == <<fixvars, seqvars, datavars, iovars, second>>

-----------------------------------------------------------------------------
(* Bounds of the model *)

MaxRows == 3            \* rows in the annotation file of a sequence

MaxFixRows == 4         \* rows in a raw file given to fix_gt on its own

MaxFixCalls == 3        \* fix_gt calls in one behaviour of SpecFix

MaxSeqLength == 3       \* the largest seqLength a manifest declares

MaxSeq == 4             \* the largest sequence number with a directory

-----------------------------------------------------------------------------
(* Values written in a file.  A row is the sequence of its comma-separated *)
(* fields; field 1 is the frame index as it is written, a string.          *)

SeqsUpTo(S, n) == UNION {[1..k -> S] : k \in 0..n}

\* a name with no file behind it
Absent == [exists |-> FALSE, rows |-> <<>>, eol |-> ""]

File(rows, eol) == [exists |-> TRUE, rows |-> rows, eol |-> eol]

\* Decimal strings, one of them with a leading zero; "x" is the string that is
\* not a number.
NumericTokens == {"0", "1", "01", "2", "3", "4"}

\* int(s) of Python succeeds on these
IsInt(tok) == tok \in NumericTokens

\* int(s) of Python: the value of a decimal string
int(tok) ==
    CASE tok = "0"  -> 0
      [] tok = "1"  -> 1
      [] tok = "01" -> 1
      [] tok = "2"  -> 2
      [] tok = "3"  -> 3
      [] tok = "4"  -> 4

\* File names are sequences of pieces, the last being the 4-character extension.
EXT == ".txt"

GT_TXT == <<"gt", EXT>>

DET_TXT == <<"det", EXT>>

\* filename[0:-4] + '_corrected.txt'
out_filename(filename) ==
    SubSeq(filename, 1, Len(filename) - 1) \o <<"_corrected", EXT>>

GT_CORRECTED_TXT == out_filename(GT_TXT)

GT_CORRECTED2_TXT == out_filename(GT_CORRECTED_TXT)

FileNames == {GT_TXT, DET_TXT, GT_CORRECTED_TXT, GT_CORRECTED2_TXT}

\* csv.writer's default line terminator, and the one of a hand-written file
CRLF == "\r\n"

LF == "\n"

\* an open file, and the function whose code opened it
Handle(file, by) == [file |-> file, by |-> by]

\* the end of every `with open(...)` block of the function `by`, left by its
\* last statement or by an exception: the file is closed
Close(h, by) == {x \in h : x.by # by}

-----------------------------------------------------------------------------
(* fix_gt *)

\* key=lambda row: int(row[0]) raises IndexError on a row without fields (a
\* blank line read by csv.reader) and ValueError on a non-numeric first field
KeyError(row) ==
    IF Len(row) = 0 THEN "IndexError"
    ELSE IF ~IsInt(row[1]) THEN "ValueError"
    ELSE "none"

key(row) == int(row[1])

\* the keys are computed in list order: the first bad row raises
RECURSIVE FirstKeyError(_)
FirstKeyError(rows) ==
    IF rows = <<>> THEN "none"
    ELSE IF KeyError(Head(rows)) # "none" THEN KeyError(Head(rows))
    ELSE FirstKeyError(Tail(rows))

\* a sort that is not stable: x goes in front of the elements of equal key
RECURSIVE InsertUnstable(_, _)
InsertUnstable(x, s) ==
    IF s = <<>> THEN <<x>>
    ELSE IF key(x) <= key(Head(s)) THEN <<x>> \o s
    ELSE <<Head(s)>> \o InsertUnstable(x, Tail(s))

\* the place of x in a list sorted so far: after every element whose key is
\* not larger (Python's sort is stable)
RECURSIVE Insert(_, _)
Insert(x, s) ==
    IF s = <<>> THEN <<x>>
    ELSE IF key(x) < key(Head(s)) THEN <<x>> \o s
    ELSE <<Head(s)>> \o Insert(x, Tail(s))

\* sorted(reader, key=lambda row: int(row[0]), reverse=False)
RECURSIVE sorted(_)
sorted(rows) ==
    IF rows = <<>> THEN <<>>
    ELSE Insert(rows[Len(rows)], sorted(SubSeq(rows, 1, Len(rows) - 1)))

\* a reader that does not fold "\r\n" into one line end: every line of such
\* a file is followed by a blank one
RECURSIVE WithBlankRows(_)
WithBlankRows(rows) ==
    IF rows = <<>> THEN <<>> ELSE <<Head(rows), <<>> >> \o WithBlankRows(Tail(rows))

reader_untranslated(content) ==
    IF content.eol = "\r\n" THEN WithBlankRows(content.rows) ELSE content.rows

\* csv.reader over a file opened in text mode (universal newlines): the rows,
\* whatever ends the lines
reader(content) == content.rows

\* csv.writer(fid, delimiter=',').writerows(rows): every line ends "\r\n"
writerows(rows) == File(rows, CRLF)

\* The outcome of fix_gt(filename) on the files f: the exception it raises
\* ("none" when it returns), the files it leaves and the handles it leaves
\* open.  Both files are opened by a `with`.
fix_gt(f, filename) ==
    IF ~f[filename].exists
    THEN [err |-> "IOError", fs |-> f, handles |-> {}]
    ELSE LET rows == reader(f[filename])
             e == FirstKeyError(rows)
             input == Close({Handle(filename, "fix_gt")}, "fix_gt")
         IN IF e # "none"
            THEN [err |-> e, fs |-> f, handles |-> input]
            ELSE [err |-> "none",
                  fs |-> [f EXCEPT ![out_filename(filename)] = writerows(sorted(rows))],
                  handles |-> Close(input \cup {Handle(out_filename(filename), "fix_gt")},
                                    "fix_gt")]

-----------------------------------------------------------------------------
(* DataLoader.load_sequence and DataLoader.__iter__ *)

\* sequence_string: str(sequence_number), with '0' in front of a single digit
sequence_string(n) ==
    IF n < 10 THEN <<0, n>> ELSE <<n \div 10, n % 10>>

\* What the root holds for one sequence name: the split directories
\* ('train', 'test') that hold a directory MOT16-<name>, and the state of the
\* seqinfo.ini in it:
\*   "ok"       present, with its eight positional key=value lines
\*   "missing"  no such file
\*   "short"    fewer lines, or a line without '='
Splits == {"train", "test"}

NoDirectory == [splits |-> {}, manifest |-> "missing"]

DirEntries ==
    {NoDirectory, [splits |-> Splits, manifest |-> "ok"]}
        \cup {[splits |-> {sp}, manifest |-> m] :
                 sp \in Splits, m \in {"ok", "missing", "short"}}

Entry(r, name) == IF name \in DOMAIN r THEN r[name] ELSE NoDirectory

\* glob.glob(self.filepath + '*/MOT16-' + sequence_string): the matching paths
glob(r, name) == {<<sp, name>> : sp \in Entry(r, name).splits}

\* which exceptions `except IOError` of DataLoader.__iter__ catches
CaughtAsIOError(e) == e = "IOError"

\* load_sequence(sequence_number): the exception it raises ("none" when it
\* returns), where that was raised, the handles left open (the manifest is
\* read inside a `with`) and the SequenceLoader it returns.
\* ''.join(paths) of two matches is the name of no directory, so the open
\* of its seqinfo.ini fails like that of a missing manifest.
load_sequence(r, n, midpoints) ==
    LET name == sequence_string(n)
        paths == glob(r, name)
        manifest == Close({Handle("seqinfo.ini", "__init__")}, "__init__")
    IN IF paths = {}
       THEN [err |-> "IOError", at |-> "load_sequence", handles |-> {}]
       ELSE IF Cardinality(paths) > 1 \/ Entry(r, name).manifest = "missing"
       THEN [err |-> "IOError", at |-> "open", handles |-> {}]
       ELSE IF Entry(r, name).manifest = "short"
       THEN [err |-> "IndexError", at |-> "__init__", handles |-> manifest]
       ELSE [err |-> "none", at |-> "none", handles |-> manifest,
             loader |-> [filepath |-> CHOOSE q \in paths : TRUE,
                         choose_midpoints |-> midpoints]]

\* One pull on the generator of DataLoader.__iter__
next_sequence ==
    /\ data_pc \in {"unstarted", "yielded"}
    /\ LET n == IF data_pc = "unstarted" THEN 1 ELSE self_sequence
           r == load_sequence(root, n, dl_midpoints)
       IN IF r.err = "none"
          THEN /\ self_sequence' = n + 1
               /\ sequences' = Append(sequences, r.loader)
               /\ data_pc' = "yielded"
               /\ UNCHANGED <<data_err, caught>>
          ELSE IF CaughtAsIOError(r.err)
          THEN /\ self_sequence' = n
               /\ data_pc' = "done"
               /\ caught' = r.at
               /\ UNCHANGED <<data_err, sequences>>
          ELSE /\ self_sequence' = n
               /\ data_pc' = "raised"
               /\ data_err' = r.err
               /\ UNCHANGED <<caught, sequences>>
    /\ handles' = handles \cup load_sequence(root, IF data_pc = "unstarted" THEN 1
                                                    ELSE self_sequence,
                                              dl_midpoints).handles
    /\ UNCHANGED <<root, dl_midpoints, fixvars, seqvars, io_log, second>>

-----------------------------------------------------------------------------
(* SequenceLoader.load_gt: the generator that groups the rows per frame *)

\* self.filepath as its pieces: the root directory the DataLoader was given,
\* the split directory the glob matched, the sequence directory
RootDirs == {"data", "trainset"}

Paths ==
    {<<r, sp, "MOT16-01">> : r \in RootDirs, sp \in Splits}
        \ {<<"trainset", "train", "MOT16-01">>}

\* 'train' in piece, for the pieces paths are made of
HasTrain(piece) == piece \in {"train", "trainset"}

\* 'train' in path
train_in(path) == \E i \in 1..Len(path) : HasTrain(path[i])

\* 'train' in self.filepath
filepath_train == train_in(filepath)

\* the split a sequence path denotes, and the annotation file that the
\* sequences of that split come with
SplitOf(path) == path[2]

AnnotationName(path) == IF SplitOf(path) = "train" THEN GT_TXT ELSE DET_TXT

\* [float(box[x]) for x in range(2, 6)]: left, top, width, height
Box(box) == <<box[3], box[4], box[5], box[6]>>

\* [float(box[2]) + float(box[4]) / 2, float(box[3]) + float(box[5]) / 2]
\* (the widths and heights of the model are even, so w / 2 is w \div 2)
Midpoint(box) == <<box[3] + box[5] \div 2, box[4] + box[6] \div 2>>

\* The list objects of one SequenceLoader and of one load_gt generator:
\*   "init"       the list self.midpoints is given in __init__
\*   "boxes"      the generator's local list boxes
\*   "midpoints"  the generator's local list midpoints
NoLists == [init |-> <<>>, boxes |-> <<>>, midpoints |-> <<>>]

\* the list object named ref, emptied in place: del(x[:])
DelAll(ls, ref) == [ls EXCEPT ![ref] = <<>>]

\* yield (midpoints) or yield (boxes) inside the loop
YieldedInLoop(flag) == IF flag THEN "midpoints" ELSE "boxes"

\* yield (boxes) after the loop
YieldedAtEnd(flag) == "boxes"

\* a test that lets the record of the next frame into the current group
FrameChangedSkipping(box, current) == int(box[1]) > current + 1

\* a test that ends the group at every record
FrameChangedAlways(box, current) == TRUE

\* if int(box[0]) != self.frame
FrameChanged(box, current) == int(box[1]) # current

\* The state load_gt works on is a record s:
\*   pc     "in_loop" (suspended at the yield inside the loop), "flushed"
\*          (suspended at the last yield), "raised", "finished"
\*   pos    the row being handled;  out: the list object yielded
\*   lists, self_frame, self_midpoints, handles, io_log: as the variables
\* for line in fid, from row s.pos, up to the next yield or exception.
RECURSIVE ForLine(_, _, _)
RECURSIVE AppendRow(_, _, _)
ForLine(s, rows, flag) ==
    IF s.pos > Len(rows)
    THEN [s EXCEPT !.pc = "flushed", !.out = YieldedAtEnd(flag),
                   !.handles = Close(@, "load_gt")]
    ELSE LET box == rows[s.pos]
         IN IF Len(box) = 0 \/ ~IsInt(box[1])
            THEN [s EXCEPT !.pc = "raised", !.err = "ValueError",
                           !.handles = Close(@, "load_gt")]
            ELSE IF FrameChanged(box, s.self_frame)
            THEN [s EXCEPT !.self_frame = @ + 1,
                           !.self_midpoints = "midpoints",
                           !.pc = "in_loop",
                           !.out = YieldedInLoop(flag)]
            ELSE AppendRow(s, rows, flag)

\* boxes.append(...); midpoints.append(...) for row s.pos, then the next line
AppendRow(s, rows, flag) ==
    LET box == rows[s.pos]
    IN IF Len(box) < 6
       THEN [s EXCEPT !.pc = "raised", !.err = "IndexError",
                      !.handles = Close(@, "load_gt")]
       ELSE ForLine([s EXCEPT !.lists.boxes = Append(@, Box(box)),
                              !.lists.midpoints = Append(@, Midpoint(box)),
                              !.pos = @ + 1],
                    rows, flag)

\* the lists left as they are after the yield
KeepAfterYield(s) == s

\* after the yield inside the loop: del (boxes[:]); del(midpoints[:]);
\* del(self.midpoints[:])
ClearAfterYield(s) ==
    [s EXCEPT !.lists = DelAll(DelAll(DelAll(@, "boxes"), "midpoints"),
                               s.self_midpoints)]

\* the annotation file load_gt opens
gt_filepath(train) == IF train THEN GT_CORRECTED_TXT ELSE DET_TXT

\* next(generator) on load_gt's generator, from the state s it is suspended
\* in and the files f: the state it is left in, s.fs the files it leaves.
\* The loop runs inside `with open(gt_filepath, 'r') as fid`; the last yield
\* comes after it.
next_gt(s, f, train, flag) ==
    CASE s.pc = "unstarted" ->
            LET called == IF train
                          THEN Append(s.io_log, [op |-> "fix_gt", file |-> GT_TXT])
                          ELSE s.io_log
                fixed == IF train THEN fix_gt(f, GT_TXT)
                                  ELSE [err |-> "none", fs |-> f, handles |-> {}]
                file == fixed.fs[gt_filepath(train)]
            IN IF fixed.err # "none"
               THEN [s EXCEPT !.pc = "raised", !.err = fixed.err,
                              !.io_log = called,
                              !.handles = @ \cup fixed.handles]
               ELSE IF ~file.exists
               THEN [s EXCEPT !.pc = "raised", !.err = "IOError", !.fs = fixed.fs,
                              !.io_log = called,
                              !.handles = @ \cup fixed.handles]
               ELSE ForLine([s EXCEPT !.fs = fixed.fs,
                                      !.fid = reader(file),
                                      !.pos = 1,
                                      !.lists.boxes = <<>>,
                                      !.lists.midpoints = <<>>,
                                      !.io_log = Append(called,
                                          [op |-> "open", file |-> gt_filepath(train)]),
                                      !.handles = @ \cup fixed.handles
                                          \cup {Handle(gt_filepath(train), "load_gt")}],
                            reader(file), flag)
      [] s.pc = "in_loop" -> AppendRow(ClearAfterYield(s), s.fid, flag)
      [] s.pc = "flushed" -> [s EXCEPT !.pc = "finished"]
      [] OTHER -> s

-----------------------------------------------------------------------------
(* SequenceLoader.__iter__: the generator that pairs images and groups *)

\* int(self.seqLength) succeeds
SeqLengthOk == IsInt(seqLength)

\* cv2.imread(img_filename, 1) is None
ImageMissing(k) == k \notin images

\* what the consumer is handed by yield img, next(generator)
Pair(k, s) == [frame |-> k, ref |-> s.out, at_yield |-> s.lists[s.out]]

\* The state one iteration works on is a record st:
\*   of its SequenceLoader and the directory of that: filepath,
\*     choose_midpoints, seqLength, images, fs, self_frame, self_midpoints,
\*     accumulator
\*   lists: the list objects
\*   its own: gt_pc, gt_pos, fid, iter_pc, frame, err, pairs, handles, io_log
\* the state of its load_gt generator:
GtState(st) ==
    [pc |-> st.gt_pc, pos |-> st.gt_pos, fid |-> st.fid, lists |-> st.lists,
     self_frame |-> IF st.iter_pc = "unstarted" THEN 1 ELSE st.self_frame,
     self_midpoints |-> st.self_midpoints, err |-> "none", out |-> "boxes",
     fs |-> st.fs, handles |-> st.handles, io_log |-> st.io_log]

\* load_gt's generator finalized while it is suspended at the yield inside
\* the loop: GeneratorExit is raised there, the `with` block is left and the
\* file is closed
close_gt(st) == [st EXCEPT !.gt_pc = "closed", !.handles = Close(@, "load_gt")]

\* __iter__ returns and its local `generator` is dropped.  The code does not
\* close it: an interpreter that counts references finalizes it at once
\* (refcounted), another one when it next collects garbage.
Dropped(st, refcounted) ==
    IF refcounted /\ st.gt_pc = "in_loop" THEN close_gt(st) ELSE st

\* One pull, next(...) on the generator of __iter__: the code from where it
\* is suspended to its next yield, its end or its exception.
\* stop_is_error: a StopIteration raised inside a generator becomes a
\* RuntimeError (PEP 479, the default from Python 3.7); before that it ends
\* the generator silently.
next_iter(st, stop_is_error, refcounted) ==
    LET k == IF st.iter_pc = "unstarted" THEN 1 ELSE st.frame + 1
        s == next_gt(GtState(st), st.fs, train_in(st.filepath), st.choose_midpoints)
    IN IF st.iter_pc = "unstarted" /\ ~IsInt(st.seqLength)
       THEN [st EXCEPT !.iter_pc = "raised", !.err = "ValueError", !.self_frame = 1]
       ELSE IF k > int(st.seqLength) \/ k \notin st.images
       THEN Dropped([st EXCEPT !.iter_pc = "done",
                               !.self_frame = IF st.iter_pc = "unstarted" THEN 1 ELSE @],
                    refcounted)
       ELSE [st EXCEPT
               !.frame = k,
               !.fs = s.fs,
               !.self_frame = s.self_frame,
               !.self_midpoints = s.self_midpoints,
               !.lists = s.lists,
               !.gt_pc = s.pc,
               !.gt_pos = s.pos,
               !.fid = s.fid,
               !.handles = s.handles,
               !.io_log = s.io_log,
               !.iter_pc = CASE s.pc \in {"in_loop", "flushed"} -> "yielded"
                             [] s.pc = "raised" -> "raised"
                             [] OTHER -> IF stop_is_error THEN "raised" ELSE "done",
               !.err = CASE s.pc = "raised" -> s.err
                         [] s.pc = "finished" /\ stop_is_error -> "RuntimeError"
                         [] OTHER -> "none",
               !.pairs = IF s.pc \in {"in_loop", "flushed"}
                         THEN Append(@, Pair(k, s))
                         ELSE @]

\* the first iteration and its SequenceLoader, as the variables hold them
First ==
    [filepath |-> filepath, choose_midpoints |-> choose_midpoints,
     seqLength |-> seqLength, images |-> images, fs |-> fs,
     self_frame |-> self_frame, self_midpoints |-> self_midpoints,
     accumulator |-> accumulator, lists |-> lists, gt_pc |-> gt_pc,
     gt_pos |-> gt_pos, fid |-> fid, iter_pc |-> iter_pc, frame |-> frame,
     err |-> err, pairs |-> pairs, handles |-> handles, io_log |-> io_log]

\* One pull of the first consumer
Pull(stop_is_error, refcounted) ==
    /\ iter_pc \in {"unstarted", "yielded"}
    /\ LET t == next_iter(First, stop_is_error, refcounted)
       IN /\ fs' = t.fs
          /\ self_frame' = t.self_frame
          /\ self_midpoints' = t.self_midpoints
          /\ lists' = t.lists
          /\ gt_pc' = t.gt_pc
          /\ gt_pos' = t.gt_pos
          /\ fid' = t.fid
          /\ iter_pc' = t.iter_pc
          /\ frame' = t.frame
          /\ err' = t.err
          /\ pairs' = t.pairs
          /\ handles' = t.handles
          /\ io_log' = t.io_log
    /\ UNCHANGED <<filepath, choose_midpoints, seqLength, images,
                   accumulator, fix_status, fix_calls, fix_prev, fix_arg,
                   datavars, second>>

\* The interpreter collects the generator of load_gt that an ended iteration
\* left suspended inside its `with` block.
finalize ==
    /\ iter_pc = "done"
    /\ gt_pc = "in_loop"
    /\ gt_pc' = close_gt(First).gt_pc
    /\ handles' = close_gt(First).handles
    /\ UNCHANGED <<fixvars, datavars, filepath, choose_midpoints, seqLength,
                   images, self_frame, self_midpoints, lists, gt_pos, fid,
                   iter_pc, frame, err, pairs, accumulator, io_log, second>>

-----------------------------------------------------------------------------
(* SequenceLoader.update_metrics *)

\* the squared Euclidean distance of two points
norm2squared(a, b) ==
    (a[1] - b[1]) * (a[1] - b[1]) + (a[2] - b[2]) * (a[2] - b[2])

\* mm.distances.norm2squared_matrix(objs, hyps): one row per element of
\* objs, one column per element of hyps; the empty matrix when either is empty
norm2squared_matrix(objs, hyps) ==
    IF objs = <<>> \/ hyps = <<>> THEN <<>>
    ELSE [i \in 1..Len(objs) |-> [j \in 1..Len(hyps) |->
                                     norm2squared(objs[i], hyps[j])]]

\* list(range(n))
range(n) == [i \in 1..n |-> i - 1]

\* the predictions a consumer passes
Predictions == {<<<<1, 1>>, <<5, 4>>>>}

\* update_metrics(predictions) on the SequenceLoader of st, called while the
\* consumer holds the pair of frame st.frame: the arguments it gives to
\* accumulator.update and the matrix it returns
metrics_update(st, predictions) ==
    LET p_coords == predictions
        g_coords == st.lists[st.self_midpoints]
        dists == norm2squared_matrix(p_coords, g_coords)
    IN [frame |-> st.frame,
        p_coords |-> p_coords,
        g_coords |-> g_coords,
        oids |-> range(Len(st.lists[st.self_midpoints])),
        hids |-> range(Len(predictions)),
        dists |-> dists,
        returned |-> dists]

\* update_metrics(predictions), called by the first consumer while it holds
\* the pair of the current frame (once per pair in this model)
update_metrics(predictions) ==
    /\ iter_pc = "yielded"
    /\ \A e \in 1..Len(accumulator) : accumulator[e].frame # frame
    /\ accumulator' = Append(accumulator, metrics_update(First, predictions))
    /\ UNCHANGED <<fixvars, datavars, iovars, second, filepath, choose_midpoints,
                   seqLength, images, self_frame, self_midpoints, lists, gt_pc,
                   gt_pos, fid, iter_pc, frame, err, pairs>>

-----------------------------------------------------------------------------
(* One sequence iterated by one consumer *)

\* the boxes annotation rows are drawn from: left, top, width, height
GtBoxes == {<<0, 0, 2, 2>>, <<4, 2, 2, 4>>}

\* annotation rows: frame, id, left, top, width, height; one box in the
\* frames 1 and 3, both boxes in frame 2
GtRows ==
    {<<tok, 1, b[1], b[2], b[3], b[4]>> : tok \in {"1", "2", "3"}, b \in GtBoxes}
        \ {<<tok, 1, 4, 2, 2, 4>> : tok \in {"1", "3"}}

\* a row whose frame index is not a number; a row with too few fields
BadGtRows == {<<"x", 1, 0, 0, 2, 2>>, <<"2", 1>>}

\* the annotation files: rows that parse, or such rows and then one that does
\* not (in a det.txt nothing after the first such row is ever read)
GtFiles ==
    SeqsUpTo(GtRows, MaxRows)
        \cup {Append(rows, bad) : rows \in SeqsUpTo(GtRows, MaxRows - 1),
                                  bad \in BadGtRows}

\* the image files of a sequence of declared length n: those of frames 1..m,
\* and either none after the first missing one or all from m+2 on
ImageSets(n) ==
    UNION {{(1..m) \cup later : later \in {{}, (m + 2)..n}} : m \in 0..n}

\* the seqLength fields of the manifests
SeqLengths == {t \in NumericTokens \ {"01"} : int(t) <= MaxSeqLength} \cup {"x"}

\* the names MOT16-NN on disk: two digits
DirNames == {<<n \div 10, n % 10>> : n \in 1..MaxSeq}

DataNew ==
    /\ self_sequence = 0
    /\ data_pc = "unstarted"
    /\ data_err = "none"
    /\ caught = "none"
    /\ sequences = <<>>

\* no DataLoader at work
DataIdle ==
    /\ root = [name \in {} |-> NoDirectory]
    /\ dl_midpoints = FALSE
    /\ DataNew

\* a SequenceLoader after __init__, no iteration started
LoaderNew ==
    /\ self_frame = 0
    /\ self_midpoints = "init"
    /\ gt_pc = "unstarted"
    /\ gt_pos = 0
    /\ fid = <<>>
    /\ iter_pc = "unstarted"
    /\ frame = 0
    /\ err = "none"
    /\ pairs = <<>>
    /\ accumulator = <<>>

SeqNew == LoaderNew /\ lists = NoLists

FixIdle ==
    /\ fix_status = "none"
    /\ fix_calls = 0
    /\ fix_prev = fs
    /\ fix_arg = <<>>

\* no file open
IoIdle ==
    /\ handles = {}
    /\ io_log = <<>>

\* no second iteration
NoSecond == [on |-> "none"]

Init ==
    /\ filepath \in Paths
    /\ choose_midpoints \in BOOLEAN
    /\ seqLength \in SeqLengths
    /\ images \in ImageSets(IF IsInt(seqLength) THEN int(seqLength) ELSE 0)
    /\ \E file \in {File(rows, LF) : rows \in GtFiles} \cup {Absent} :
          fs = [n \in FileNames |->
                  IF n = AnnotationName(filepath) THEN file ELSE Absent]
    /\ SeqNew
    /\ FixIdle
    /\ DataIdle
    /\ IoIdle
    /\ second = NoSecond

Next ==
    \/ \E stop_is_error, refcounted \in BOOLEAN : Pull(stop_is_error, refcounted)
    \/ \E predictions \in Predictions : update_metrics(predictions)
    \/ finalize

Spec == Init /\ [][Next]_vars

-----------------------------------------------------------------------------
(* The dataset iterated by one consumer *)

InitData ==
    /\ root \in [DirNames -> DirEntries]
    /\ dl_midpoints \in BOOLEAN
    /\ DataNew
    /\ fs = [n \in FileNames |-> Absent]
    /\ FixIdle
    /\ filepath = <<"data", "test", "MOT16-01">>
    /\ choose_midpoints = FALSE
    /\ seqLength = "0"
    /\ images = {}
    /\ SeqNew
    /\ IoIdle
    /\ second = NoSecond

NextData == next_sequence

SpecData == InitData /\ [][NextData]_vars

-----------------------------------------------------------------------------
(* Two iterations by two consumers, interleaved pull by pull: the second    *)
(* one over the same SequenceLoader (on = "A") or over the SequenceLoader   *)
(* of another directory (on = "B").                                         *)

MaxRowsTwo == 3         \* rows in the annotation file of the first sequence

MaxRowsOther == 1       \* rows in the annotation file of the other sequence

\* the list objects of two iterations: those of NoLists, the locals boxes2
\* and midpoints2 of the second load_gt generator, and init2, the list the
\* other SequenceLoader is given in __init__
TwoLists ==
    [n \in {"init", "boxes", "midpoints", "init2", "boxes2", "midpoints2"} |-> <<>>]

\* every iteration and every SequenceLoader shares its lists with the first
SameName(on, ref) == ref

\* The code of the second iteration names its objects like that of the
\* first: its `boxes` is the object boxes2, its `midpoints` is midpoints2,
\* and the list its SequenceLoader got in __init__ is init2 if that is
\* another SequenceLoader.
SwapName(on, ref) ==
    CASE ref = "boxes" -> "boxes2"
      [] ref = "boxes2" -> "boxes"
      [] ref = "midpoints" -> "midpoints2"
      [] ref = "midpoints2" -> "midpoints"
      [] ref = "init" -> IF on = "B" THEN "init2" ELSE "init"
      [] ref = "init2" -> IF on = "B" THEN "init" ELSE "init2"

SwapLists(on, ls) == [n \in DOMAIN ls |-> ls[SwapName(on, n)]]

\* the second iteration and its SequenceLoader
Second ==
    IF second.on = "A"
    THEN [First EXCEPT !.self_midpoints = SwapName("A", @),
                       !.lists = SwapLists("A", @),
                       !.gt_pc = second.gt_pc,
                       !.gt_pos = second.gt_pos,
                       !.fid = second.fid,
                       !.iter_pc = second.iter_pc,
                       !.frame = second.frame,
                       !.err = second.err,
                       !.pairs = second.pairs,
                       !.handles = second.handles,
                       !.io_log = second.io_log]
    ELSE [filepath |-> second.filepath, choose_midpoints |-> second.choose_midpoints,
          seqLength |-> second.seqLength, images |-> second.images,
          fs |-> second.fs, self_frame |-> second.self_frame,
          self_midpoints |-> SwapName("B", second.self_midpoints),
          accumulator |-> second.accumulator,
          lists |-> SwapLists("B", lists),
          gt_pc |-> second.gt_pc, gt_pos |-> second.gt_pos, fid |-> second.fid,
          iter_pc |-> second.iter_pc, frame |-> second.frame, err |-> second.err,
          pairs |-> second.pairs, handles |-> second.handles,
          io_log |-> second.io_log]

\* what is the second iteration's own, taken from t
OwnOf(t) ==
    [second EXCEPT !.gt_pc = t.gt_pc, !.gt_pos = t.gt_pos, !.fid = t.fid,
                   !.iter_pc = t.iter_pc, !.frame = t.frame, !.err = t.err,
                   !.pairs = t.pairs, !.handles = t.handles, !.io_log = t.io_log]

\* One pull of the second consumer
Pull2(stop_is_error, refcounted) ==
    /\ second.on \in {"A", "B"}
    /\ second.iter_pc \in {"unstarted", "yielded"}
    /\ LET t == next_iter(Second, stop_is_error, refcounted)
       IN /\ lists' = SwapLists(second.on, t.lists)
          /\ IF second.on = "A"
             THEN /\ fs' = t.fs
                  /\ self_frame' = t.self_frame
                  /\ self_midpoints' = SwapName("A", t.self_midpoints)
                  /\ second' = OwnOf(t)
             ELSE /\ second' = [OwnOf(t) EXCEPT
                                  !.fs = t.fs,
                                  !.self_frame = t.self_frame,
                                  !.self_midpoints = SwapName("B", t.self_midpoints)]
                  /\ UNCHANGED <<fs, self_frame, self_midpoints>>
    /\ UNCHANGED <<filepath, choose_midpoints, seqLength, images, gt_pc, gt_pos,
                   fid, iter_pc, frame, err, pairs, accumulator, fix_status,
                   fix_calls, fix_prev, fix_arg, datavars, iovars>>

\* update_metrics(predictions) on the other SequenceLoader, called by the
\* second consumer while it holds the pair of its current frame
update_metrics2(predictions) ==
    /\ second.on = "B"
    /\ second.iter_pc = "yielded"
    /\ \A e \in 1..Len(second.accumulator) : second.accumulator[e].frame # second.frame
    /\ second' = [second EXCEPT
                    !.accumulator = Append(@, metrics_update(Second, predictions))]
    /\ UNCHANGED <<fixvars, seqvars, datavars, iovars>>

\* the rows of the annotation file of the first sequence, and of the other
RowsTwo == {<<tok, 1, 0, 0, 2, 2>> : tok \in {"2", "3"}}

RowsOther == {<<tok, 1, 4, 2, 2, 4>> : tok \in {"1", "2"}}

\* an iteration not started: what is its own
NewIteration ==
    [gt_pc |-> "unstarted", gt_pos |-> 0, fid |-> <<>>, iter_pc |-> "unstarted",
     frame |-> 0, err |-> "none", pairs |-> <<>>, handles |-> {}, io_log |-> <<>>]

\* the second iteration before its first pull: over the first
\* SequenceLoader, or over that of the testing sequence MOT16-02, which the
\* same DataLoader constructed (with the same flag)
Seconds(flag) ==
    {[on |-> "A"] @@ NewIteration}
        \cup {[on |-> "B", filepath |-> <<"data", "test", "MOT16-02">>,
               choose_midpoints |-> flag, seqLength |-> "2", images |-> 1..2,
               fs |-> [n \in FileNames |->
                         IF n = DET_TXT THEN File(rows, LF) ELSE Absent],
               self_frame |-> 0, self_midpoints |-> "init2",
               accumulator |-> <<>>] @@ NewIteration :
                 rows \in SeqsUpTo(RowsOther, MaxRowsOther)}

InitTwo ==
    /\ filepath = <<"data", "test", "MOT16-01">>
    /\ choose_midpoints \in BOOLEAN
    /\ seqLength = "3"
    /\ images = 1..3
    /\ \E rows \in SeqsUpTo(RowsTwo, MaxRowsTwo) :
          fs = [n \in FileNames |->
                  IF n = AnnotationName(filepath) THEN File(rows, LF) ELSE Absent]
    /\ LoaderNew
    /\ lists = TwoLists
    /\ FixIdle
    /\ DataIdle
    /\ IoIdle
    /\ second \in Seconds(choose_midpoints)

NextTwo ==
    \/ \E stop_is_error, refcounted \in BOOLEAN : Pull(stop_is_error, refcounted)
    \/ \E stop_is_error, refcounted \in BOOLEAN : Pull2(stop_is_error, refcounted)
    \/ \E predictions \in Predictions : update_metrics(predictions)
    \/ \E predictions \in Predictions : update_metrics2(predictions)

SpecTwo == InitTwo /\ [][NextTwo]_vars

-----------------------------------------------------------------------------
(* Properties of one sequence iteration (Spec) *)

WellFormedRow(r) == Len(r) = 6 /\ IsInt(r[1])

\* every row parses and the frame indices do not decrease
FrameSorted(rows) ==
    /\ \A i \in 1..Len(rows) : WellFormedRow(rows[i])
    /\ \A i \in 1..Len(rows) - 1 : int(rows[i][1]) <= int(rows[i + 1][1])

\* load_gt has opened its file, and the file is frame-sorted
ReadsSortedFile == gt_pc \in {"in_loop", "flushed", "finished"} /\ FrameSorted(fid)

BoxesOf(rs) == [i \in 1..Len(rs) |-> Box(rs[i])]

MidpointsOf(rs) == [i \in 1..Len(rs) |-> Midpoint(rs[i])]

RowsOfFrame(rows, k) == SelectSeq(rows, LAMBDA r : int(r[1]) = k)

\* the groups handed out so far, as they were when yielded, one after another
RECURSIVE Concat(_)
Concat(ps) ==
    IF ps = <<>> THEN <<>> ELSE Head(ps).at_yield \o Concat(Tail(ps))

\* the rows whose values the i-th group held when it was yielded
RowsOfGroup(i) ==
    LET start == Len(Concat(SubSeq(pairs, 1, i - 1)))
    IN SubSeq(fid, start + 1, start + Len(pairs[i].at_yield))

\* C1: for a frame-sorted file, the group paired with image frame k holds
\* exactly the records of frame k, in file order (none when frame k has no
\* record).
C1_GroupHoldsItsFrame ==
    ReadsSortedFile =>
        \A i \in 1..Len(pairs) :
            LET rs == RowsOfFrame(fid, pairs[i].frame)
            IN pairs[i].at_yield \in {BoxesOf(rs), MidpointsOf(rs)}

\* C2: for a frame-sorted file, once load_gt has yielded its last group the
\* groups, each as it was when yielded, concatenated in order, are the
\* records of the file, each once and in file order.
C2_GroupsReproduceFile ==
    (ReadsSortedFile /\ gt_pc \in {"flushed", "finished"}) =>
        LET all == Concat(pairs)
        IN /\ Len(all) = Len(fid)
           /\ \A i \in 1..Len(fid) : all[i] \in {Box(fid[i]), Midpoint(fid[i])}

C2_Witness ==
    /\ ReadsSortedFile
    /\ gt_pc = "flushed"
    /\ Len(fid) = 3
    /\ Len(pairs) = 3
    /\ Len(pairs[2].at_yield) = 2
    /\ fid[1] # fid[2]
    /\ choose_midpoints

\* the annotation rows load_gt will read, when they are frame-sorted
SourceName == IF filepath_train THEN GT_TXT ELSE DET_TXT

SortedAnnotations ==
    /\ fs[SourceName].exists
    /\ \A i \in 1..Len(fs[SourceName].rows) : WellFormedRow(fs[SourceName].rows[i])
    /\ FrameSorted(IF filepath_train THEN sorted(fs[SourceName].rows)
                                     ELSE fs[SourceName].rows)

\* m: the images of frames 1..m are present, that of m+1 is not (m <= L)
RECURSIVE PresentPrefix(_)
PresentPrefix(k) ==
    IF k + 1 > int(seqLength) \/ ImageMissing(k + 1) THEN k ELSE PresentPrefix(k + 1)

\* C3: with seqLength = L, images present for frames 1..m and absent for
\* m+1, and a frame-sorted annotation file, the iteration yields exactly m
\* pairs, for frames 1..m in order, and ends without an error.
C3_YieldsPresentFrames ==
    (SeqLengthOk /\ SortedAnnotations /\ iter_pc \in {"done", "raised"}) =>
        /\ iter_pc = "done"
        /\ Len(pairs) = PresentPrefix(0)
        /\ \A i \in 1..Len(pairs) : pairs[i].frame = i

\* C6: with the midpoint flag set every group handed out, the last
\* included, is the list of the midpoints of its records; with the flag
\* clear it is the list of their full boxes.
C6_FlagGovernsEveryGroup ==
    ReadsSortedFile =>
        \A i \in 1..Len(pairs) :
            pairs[i].at_yield = IF choose_midpoints
                                THEN MidpointsOf(RowsOfGroup(i))
                                ELSE BoxesOf(RowsOfGroup(i))

\* C7: an update_metrics call made while the consumer holds the pair of
\* frame f uses the midpoints of the records of frame f's group.
C7_MetricsUseCurrentGroup ==
    ReadsSortedFile =>
        \A e \in 1..Len(accumulator) :
            accumulator[e].g_coords = MidpointsOf(RowsOfGroup(accumulator[e].frame))

\* the exception the row r raises in load_gt: int(box[0]) on a frame index
\* that is not a number, box[x] on a row with too few fields
ParseErrorOf(r) ==
    IF Len(r) = 0 \/ ~IsInt(r[1]) THEN "ValueError"
    ELSE IF Len(r) < 6 THEN "IndexError"
    ELSE "none"

\* the groups the consumer holds are what they were when it was handed them
HeldGroupsIntact == \A i \in 1..Len(pairs) : lists[pairs[i].ref] = pairs[i].at_yield

\* C10: a seqLength or an annotation row that cannot be parsed raises its
\* error to the caller, unchanged, at the pull that fails on it; no pair is
\* handed out afterwards, and the pairs handed out before are as they were.
C10_ParseErrorPropagates ==
    /\ (iter_pc = "unstarted" \/ SeqLengthOk \/ (iter_pc = "raised" /\ err = "ValueError"))
    /\ (gt_pc = "raised" /\ gt_pos \in 1..Len(fid)) =>
          (iter_pc = "raised" /\ err = ParseErrorOf(fid[gt_pos]))
    /\ (iter_pc = "raised" /\ err \in {"ValueError", "IndexError"}) =>
          /\ ~ENABLED (\E stop_is_error, refcounted \in BOOLEAN :
                          Pull(stop_is_error, refcounted))
          /\ HeldGroupsIntact

\* the frame index the rows rs share: 0 when there is no row, -1 when they
\* do not share one
FrameOfRows(rs) ==
    IF rs = <<>> THEN 0
    ELSE IF \A i \in 1..Len(rs) : int(rs[i][1]) = int(rs[1][1]) THEN int(rs[1][1])
    ELSE -1

\* every frame index of the open file is at least 1
FramesFromOne == \A i \in 1..Len(fid) : int(fid[i][1]) >= 1

\* C11: for a frame-sorted file with frame indices >= 1, every group handed
\* out holds the values of records that share one frame index, and the frame
\* indices of the non-empty groups do not decrease in the order of emission.
C11_GroupsSingleFrameInOrder ==
    (ReadsSortedFile /\ FramesFromOne) =>
        /\ \A i \in 1..Len(pairs) :
              /\ pairs[i].at_yield \in {BoxesOf(RowsOfGroup(i)), MidpointsOf(RowsOfGroup(i))}
              /\ FrameOfRows(RowsOfGroup(i)) >= 0
        /\ \A i, j \in 1..Len(pairs) :
              (i < j /\ RowsOfGroup(i) # <<>> /\ RowsOfGroup(j) # <<>>) =>
                  FrameOfRows(RowsOfGroup(i)) <= FrameOfRows(RowsOfGroup(j))

\* an empty group, a group of two records and a later group all handed out
C11_Witness ==
    /\ ReadsSortedFile
    /\ FramesFromOne
    /\ gt_pc = "flushed"
    /\ Len(pairs) = 3
    /\ Len(pairs[1].at_yield) = 0
    /\ Len(pairs[2].at_yield) = 2
    /\ FrameOfRows(RowsOfGroup(2)) < FrameOfRows(RowsOfGroup(3))
    /\ ~choose_midpoints

\* C18: reading a frame-sorted file with frame indices >= 1, load_gt's frame
\* counter is 1 at the start, is k + 1 after k groups emitted inside the loop
\* (the final flush leaves it alone), and is never larger than the frame
\* index of the record read last.
C18_FrameCounterStepsByOne ==
    (ReadsSortedFile /\ FramesFromOne) =>
        /\ gt_pc = "in_loop" =>
              /\ self_frame = Len(pairs) + 1
              /\ self_frame <= int(fid[gt_pos][1])
        /\ gt_pc \in {"flushed", "finished"} =>
              /\ self_frame = Len(pairs)
              /\ Len(fid) > 0 => self_frame <= int(fid[Len(fid)][1])

\* two groups emitted inside the loop, the counter behind the record read
C18_Witness ==
    /\ ReadsSortedFile
    /\ FramesFromOne
    /\ gt_pc = "in_loop"
    /\ Len(pairs) = 2
    /\ self_frame = 3
    /\ pairs[2].at_yield # <<>>
    /\ int(fid[gt_pos][1]) = 3

\* C16: the groups the consumer holds are distinct lists, and each still has
\* the contents it was handed out with, whatever was pulled afterwards.
C16_HeldGroupsKeepContents ==
    /\ \A i \in 1..Len(pairs) : lists[pairs[i].ref] = pairs[i].at_yield
    /\ \A i, j \in 1..Len(pairs) : i # j => pairs[i].ref # pairs[j].ref

\* C13: the matrix forwarded to the accumulator has one row per ground-truth
\* id and one column per prediction id, its entry (i, j) is the non-negative
\* squared distance between ground-truth midpoint i and prediction j, and the
\* same matrix is returned.  (With no ground-truth midpoint it has no entry.)
C13_MatrixKeyedLikeTheIds ==
    \A e \in 1..Len(accumulator) :
        LET u == accumulator[e]
        IN /\ u.returned = u.dists
           /\ Len(u.dists) = Len(u.oids)
           /\ \A i \in 1..Len(u.dists) :
                 /\ Len(u.dists[i]) = Len(u.hids)
                 /\ \A j \in 1..Len(u.dists[i]) :
                       /\ u.dists[i][j] = norm2squared(u.g_coords[i], u.p_coords[j])
                       /\ u.dists[i][j] >= 0

\* load_gt has opened its annotation file
Opened == gt_pc \in {"in_loop", "flushed", "finished", "closed"}

\* C12: once load_gt has started, for a training-split path fix_gt has run
\* exactly once, before the annotation file was opened, and the file read is
\* the normalized copy; for a testing-split path fix_gt has not run and the
\* file read is the detection file as it is.
C12_SourceChosenBySplit ==
    gt_pc # "unstarted" =>
        IF SplitOf(filepath) = "train"
        THEN /\ Len(io_log) >= 1
             /\ io_log[1] = [op |-> "fix_gt", file |-> GT_TXT]
             /\ \A i \in 2..Len(io_log) :
                   io_log[i] = [op |-> "open", file |-> GT_CORRECTED_TXT]
             /\ Opened => /\ Len(io_log) = 2
                          /\ fid = sorted(fs[GT_TXT].rows)
        ELSE /\ \A i \in 1..Len(io_log) :
                   io_log[i] = [op |-> "open", file |-> DET_TXT]
             /\ ~fs[GT_CORRECTED_TXT].exists
             /\ Opened => /\ Len(io_log) = 1
                          /\ fid = fs[DET_TXT].rows

-----------------------------------------------------------------------------
(* Properties of two interleaved iterations (SpecTwo) *)

\* the SequenceLoader of st as __init__ left it, its directory as it was,
\* and an iteration over it that has not started
Fresh(st) ==
    [st EXCEPT !.fs = [n \in FileNames |->
                         IF n = AnnotationName(st.filepath) THEN st.fs[n] ELSE Absent],
               !.self_frame = 0,
               !.self_midpoints = "init",
               !.accumulator = <<>>,
               !.lists = TwoLists,
               !.gt_pc = "unstarted",
               !.gt_pos = 0,
               !.fid = <<>>,
               !.iter_pc = "unstarted",
               !.frame = 0,
               !.err = "none",
               !.pairs = <<>>,
               !.handles = {},
               !.io_log = <<>>]

\* the states an iteration passes through when it runs alone, pull by pull,
\* up to the pull that ends it
RECURSIVE SoloFrom(_)
SoloFrom(st) ==
    IF st.iter_pc \notin {"unstarted", "yielded"} THEN <<>>
    ELSE <<next_iter(st, TRUE, TRUE)>> \o SoloFrom(next_iter(st, TRUE, TRUE))

\* the pairs the iteration of st has yielded are those it yields alone, and
\* if it has ended it has yielded as many
PairsAsAlone(st) ==
    LET solo == SoloFrom(Fresh(st))
    IN /\ \A i \in 1..Len(st.pairs) :
             /\ i <= Len(solo)
             /\ Len(solo[i].pairs) = i
             /\ solo[i].pairs[i].frame = st.pairs[i].frame
             /\ solo[i].pairs[i].at_yield = st.pairs[i].at_yield
       /\ st.iter_pc \in {"done", "raised"} =>
             /\ Len(solo[Len(solo)].pairs) = Len(st.pairs)
             /\ st.err # "RuntimeError" => solo[Len(solo)].err \in {st.err, "RuntimeError"}

\* the updates the accumulator of st received are those it receives when
\* update_metrics is called at the same frames of an iteration run alone
UpdatesAsAlone(st) ==
    LET solo == SoloFrom(Fresh(st))
    IN \A e \in 1..Len(st.accumulator) :
          /\ st.accumulator[e].frame <= Len(solo)
          /\ st.accumulator[e] =
                metrics_update(solo[st.accumulator[e].frame], st.accumulator[e].p_coords)

\* C14: with two SequenceLoaders of different directories, whatever the
\* interleaving of pulls and update_metrics calls, each sequence yields the
\* pairs and gives its accumulator the updates of that sequence run alone.
C14_LoadersShareNothing ==
    second.on = "B" =>
        /\ PairsAsAlone(First)
        /\ UpdatesAsAlone(First)
        /\ PairsAsAlone(Second)
        /\ UpdatesAsAlone(Second)

\* both iterations under way, both after their second pull, midpoints
\* yielded and both accumulators updated
C14_Witness ==
    /\ second.on = "B"
    /\ choose_midpoints
    /\ iter_pc = "yielded"
    /\ second.iter_pc = "yielded"
    /\ Len(pairs) = 2
    /\ Len(second.pairs) = 2
    /\ pairs[2].at_yield # <<>>
    /\ second.pairs[2].at_yield # <<>>
    /\ Len(accumulator) = 2
    /\ Len(second.accumulator) = 2

\* C17: with two iterations over one SequenceLoader, whatever the
\* interleaving of their pulls, each yields the groups it yields alone.
C17_IterationsShareNothing ==
    second.on = "A" => PairsAsAlone(First) /\ PairsAsAlone(Second)

-----------------------------------------------------------------------------
(* The normalizer run on its own, on a raw file and on its own output. *)

\* rows of a raw file in SpecFix: <<frame, id>> with two ids to tell ties apart,
\* and the row of a blank line
FixRows ==
    {<<tok, id>> : tok \in {"1", "01", "2", "3"}, id \in {"a", "b"}}
        \cup {<<"x", "a">>, <<>>}

InitFix ==
    /\ \E rows \in SeqsUpTo(FixRows, MaxFixRows), eol \in {LF, CRLF} :
          fs = [n \in FileNames |->
                  IF n = GT_TXT THEN File(rows, eol) ELSE Absent]
    /\ FixIdle
    /\ filepath = <<"data", "train", "MOT16-01">>
    /\ choose_midpoints = FALSE
    /\ seqLength = "0"
    /\ images = {}
    /\ SeqNew
    /\ DataIdle
    /\ IoIdle
    /\ second = NoSecond

\* fix_gt('.../gt/gt.txt'), as the entry point and load_gt call it
FixSource ==
    /\ fix_calls < MaxFixCalls
    /\ LET r == fix_gt(fs, GT_TXT)
       IN /\ fs' = r.fs
          /\ fix_status' = r.err
          /\ handles' = handles \cup r.handles
    /\ fix_arg' = GT_TXT
    /\ fix_calls' = fix_calls + 1
    /\ fix_prev' = fs
    /\ UNCHANGED <<seqvars, datavars, io_log, second>>

\* fix_gt applied to the file it wrote
FixOutput ==
    /\ fix_calls < MaxFixCalls
    /\ fs[GT_CORRECTED_TXT].exists
    /\ LET r == fix_gt(fs, GT_CORRECTED_TXT)
       IN /\ fs' = r.fs
          /\ fix_status' = r.err
          /\ handles' = handles \cup r.handles
    /\ fix_arg' = GT_CORRECTED_TXT
    /\ fix_calls' = fix_calls + 1
    /\ fix_prev' = fs
    /\ UNCHANGED <<seqvars, datavars, io_log, second>>

NextFix == FixSource \/ FixOutput

SpecFix == InitFix /\ [][NextFix]_vars

-----------------------------------------------------------------------------
(* Properties of the dataset iteration (SpecData) *)

\* the smallest sequence number no directory matches
RECURSIVE FirstGapFrom(_)
FirstGapFrom(n) ==
    IF glob(root, <<n \div 10, n % 10>>) = {} THEN n ELSE FirstGapFrom(n + 1)

FirstGap == FirstGapFrom(1)

\* a SequenceLoader can be built for number n: one directory matches it and
\* its manifest has the positional lines
Loadable(n) ==
    LET e == Entry(root, <<n \div 10, n % 10>>)
    IN Cardinality(e.splits) = 1 /\ e.manifest = "ok"

RECURSIVE FirstUnloadableFrom(_)
FirstUnloadableFrom(n) == IF Loadable(n) THEN FirstUnloadableFrom(n + 1) ELSE n

FirstUnloadable == FirstUnloadableFrom(1)

\* the i-th SequenceLoader handed out is bound to the directory numbered i
BoundInOrder ==
    \A i \in 1..Len(sequences) :
        /\ sequences[i].filepath \in glob(root, <<i \div 10, i % 10>>)
        /\ sequences[i].choose_midpoints = dl_midpoints

\* C4: the iteration hands out one SequenceLoader for each number 1..k in
\* order, each bound to the directory of that number, k+1 being the smallest
\* number with no matching directory, and then ends cleanly with no error
\* reaching the caller; nothing numbered above the gap is handed out.
C4_YieldsUpToFirstGap ==
    /\ BoundInOrder
    /\ Len(sequences) < FirstGap
    /\ data_pc # "raised"
    /\ data_pc = "done" => Len(sequences) = FirstGap - 1

\* Where the iteration stops in every case: one SequenceLoader for each number
\* 1..k in order, k+1 the smallest number for which none can be built; then a
\* clean end, unless the manifest of k+1 lacks its positional lines, whose
\* IndexError reaches the caller.
StopsAtFirstUnloadable ==
    /\ BoundInOrder
    /\ Len(sequences) < FirstUnloadable
    /\ data_pc \in {"done", "raised"} => Len(sequences) = FirstUnloadable - 1
    /\ data_pc = "raised" =>
          /\ data_err = "IndexError"
          /\ Entry(root, <<FirstUnloadable \div 10, FirstUnloadable % 10>>).manifest = "short"
    /\ data_pc = "done" =>
          Entry(root, <<FirstUnloadable \div 10, FirstUnloadable % 10>>).manifest # "short"
             \/ Cardinality(Entry(root, <<FirstUnloadable \div 10, FirstUnloadable % 10>>).splits) # 1

\* C9: the only IOError that ends the dataset iteration cleanly is the one
\* load_sequence raises for a sequence directory that is not found; an
\* IOError of another origin (a manifest that cannot be opened) reaches the
\* caller.
C9_OtherIOErrorsPropagate ==
    data_pc = "done" => caught = "load_sequence"

-----------------------------------------------------------------------------
(* Properties of the normalizer (SpecFix) *)

\* every row has an integer frame index as its first field
AllKeyed(rows) == \A i \in 1..Len(rows) : KeyError(rows[i]) = "none"

KeysOf(rows) == {key(rows[i]) : i \in 1..Len(rows)}

WithKey(rows, k) == SelectSeq(rows, LAMBDA r : key(r) = k)

\* out holds the rows of in, in non-decreasing order of their keys, those of
\* equal key in the order they have in in
IsStableSortOf(out, in) ==
    /\ Len(out) = Len(in)
    /\ AllKeyed(out)
    /\ \A i \in 1..Len(out) - 1 : key(out[i]) <= key(out[i + 1])
    /\ \A k \in KeysOf(in) \cup KeysOf(out) : WithKey(out, k) = WithKey(in, k)

\* C5: fix_gt on a raw file whose rows all carry an integer frame index
\* writes to the derived path the same rows, fields untouched, in
\* non-decreasing integer frame index, rows of equal index in their input
\* order.
C5_FixGtStableSort ==
    /\ (fix_arg = GT_TXT /\ AllKeyed(fs[GT_TXT].rows)) =>
          (fix_status = "none" /\ fs[GT_CORRECTED_TXT].exists)
    /\ fs[GT_CORRECTED_TXT].exists =>
          IsStableSortOf(fs[GT_CORRECTED_TXT].rows, fs[GT_TXT].rows)

\* frames [3,1,2,1] become [1,1,2,3], the two frame-1 rows in input order
C5_Witness ==
    /\ fix_arg = GT_TXT
    /\ fs[GT_TXT].rows = << <<"3", "a">>, <<"1", "b">>, <<"2", "a">>, <<"01", "a">> >>
    /\ fs[GT_CORRECTED_TXT].rows =
          << <<"1", "b">>, <<"01", "a">>, <<"2", "a">>, <<"3", "a">> >>

\* C8: fix_gt applied to its own output succeeds and writes a file equal to
\* that output; any call made once the derived file exists leaves the
\* derived file with the content it had and the source file as it was.
C8_FixGtIdempotent ==
    /\ fix_arg = GT_CORRECTED_TXT =>
          /\ fix_status = "none"
          /\ fs[GT_CORRECTED2_TXT] = fs[GT_CORRECTED_TXT]
    /\ fix_calls > 0 => fs[GT_TXT] = fix_prev[GT_TXT]
    /\ (fix_arg = GT_TXT /\ fix_prev[GT_CORRECTED_TXT].exists) =>
          fs[GT_CORRECTED_TXT] = fix_prev[GT_CORRECTED_TXT]

\* the source normalized, the output normalized again, the source normalized
\* once more: an unsorted file with a tie
C8_Witness ==
    /\ fix_calls = 3
    /\ fix_arg = GT_TXT
    /\ fs[GT_CORRECTED2_TXT].exists
    /\ fix_prev[GT_CORRECTED_TXT].exists
    /\ fs[GT_TXT].rows = << <<"2", "a">>, <<"01", "a">>, <<"1", "b">> >>
    /\ fs[GT_TXT].eol = LF

=============================================================================
